---------------------------- MODULE Spec2Model ----------------------------
(***************************************************************************)
(* PPC Prophet MCP server: profile resolution, working-context store and   *)
(* the tool dispatch layer (index.ts with api-client.ts, and the handlers  *)
(* registered in src/tools).  Strings that the code parses are sequences   *)
(* of one-character strings, so that parseInt and String() are computed.   *)
(***************************************************************************)
EXTENDS Integers, Sequences, FiniteSets, TLC

VARIABLES
    backend,    \* Remote Data Service: per profile id, ordinal and activation state
    file,       \* ~/.ppc-prophet/context.json
    pc,         \* position of the running invocation ("idle": none; "done": replying)
    resolved,   \* the handler's local `resolved` / `profile` across its await
    arg,        \* the profile reference the running invocation was given
    reqs,       \* outbound requests of the current (or last) invocation, in order
    reply,      \* reply of the last completed invocation
    log         \* stderr entries (logInfo / logError) of the current invocation

vars == <<backend, file, pc, resolved, arg, reqs, reply, log>>

(***************************** bounds **************************************)
\* ordinals the Remote Data Service hands out are 1..MaxOrdinal
MaxOrdinal == 2

(***************************** strings *************************************)
Digits == <<"0", "1", "2", "3", "4", "5", "6", "7", "8", "9">>

IsDigit(c) == \E i \in 1..10 : Digits[i] = c

DigitValue(c) == (CHOOSE i \in 1..10 : Digits[i] = c) - 1

\* String.prototype.replace(pat, '') with a string pattern: the first
\* occurrence only, wherever it is
ReplaceFirst(s, c) ==
    IF \E i \in 1..Len(s) : s[i] = c
    THEN LET k == CHOOSE i \in 1..Len(s) : s[i] = c /\ \A j \in 1..(i - 1) : s[j] # c
         IN  SubSeq(s, 1, k - 1) \o SubSeq(s, k + 1, Len(s))
    ELSE s

RECURSIVE SkipSpaces(_)
SkipSpaces(s) ==
    IF s # <<>> /\ Head(s) = " " THEN SkipSpaces(Tail(s)) ELSE s

RECURSIVE DigitPrefix(_)
DigitPrefix(s) ==
    IF s # <<>> /\ IsDigit(Head(s)) THEN <<Head(s)>> \o DigitPrefix(Tail(s)) ELSE <<>>

RECURSIVE DecimalValue(_)
DecimalValue(d) ==
    IF d = <<>> THEN 0
    ELSE 10 * DecimalValue(SubSeq(d, 1, Len(d) - 1)) + DigitValue(d[Len(d)])

NaN == [nan |-> TRUE, val |-> 0]

Num(n) == [nan |-> FALSE, val |-> n]

\* parseInt(s, 10): leading white space, an optional sign, then the longest
\* run of decimal digits; NaN when that run is empty.  Trailing text is ignored.
parseInt(s) ==
    LET t == SkipSpaces(s)
        signed == t # <<>> /\ Head(t) \in {"-", "+"}
        u == IF signed THEN Tail(t) ELSE t
        d == DigitPrefix(u)
    IN  IF d = <<>> THEN NaN
        ELSE IF signed /\ Head(t) = "-" THEN Num(0 - DecimalValue(d))
        ELSE Num(DecimalValue(d))

RECURSIVE NatToString(_)
NatToString(n) ==
    IF n < 10 THEN <<Digits[n + 1]>>
    ELSE NatToString(n \div 10) \o <<Digits[(n % 10) + 1]>>

NumberToString(n) == IF n < 0 THEN <<"-">> \o NatToString(0 - n) ELSE NatToString(n)

\* a tool argument as it arrives from JSON: a number or a string
NumArg(n) == [t |-> "number", n |-> n, s |-> <<>>]

StrArg(s) == [t |-> "string", n |-> 0, s |-> s]

NoArg == [t |-> "none", n |-> 0, s |-> <<>>]

\* String(input)
StringOf(input) == IF input.t = "number" THEN NumberToString(input.n) ELSE input.s

(***************************** data model *********************************)
ProfileIds == {<<"a", "1">>, <<"b", "2">>}

NameOf(id) == IF id = <<"a", "1">> THEN "Alpha" ELSE "Beta"

RegionOf(id) == IF id = <<"a", "1">> THEN "US" ELSE "CA"

\* McpProfile.mcp_data_status; "null" is the JSON null of a profile never activated
DataStatuses == {"null", "pending", "retrieving", "importing", "ready", "error"}

Ordinals == 1..MaxOrdinal

\* values of new Date().toISOString()
Times == {"2026-01-01T00:00:00.000Z"}

BackendStates ==
    {b \in [ProfileIds -> [number : Ordinals, mcp_activated : BOOLEAN,
                           mcp_data_status : DataStatuses]] :
        /\ \A p, q \in ProfileIds : p # q => b[p].number # b[q].number
        /\ \A p \in ProfileIds : b[p].mcp_activated <=> b[p].mcp_data_status # "null"}

McpProfile(b, id) ==
    [number |-> b[id].number, id |-> id, name |-> NameOf(id), region |-> RegionOf(id),
     mcp_activated |-> b[id].mcp_activated, mcp_data_status |-> b[id].mcp_data_status,
     is_ready |-> b[id].mcp_data_status = "ready"]

NoProfile ==
    [number |-> 0, id |-> <<>>, name |-> "", region |-> "",
     mcp_activated |-> FALSE, mcp_data_status |-> "null", is_ready |-> FALSE]

\* GET /v1/mcp/profiles -> data.profiles, in ordinal order
ProfileListing(b) ==
    LET rank(id) == Cardinality({q \in ProfileIds : b[q].number < b[id].number}) + 1
    IN  [k \in 1..Cardinality(ProfileIds) |->
            McpProfile(b, CHOOSE id \in ProfileIds : rank(id) = k)]

\* Array.prototype.find: the first element that satisfies the test, or undefined
FindResult(profiles, hits) ==
    IF hits = {} THEN [found |-> FALSE, p |-> NoProfile]
    ELSE [found |-> TRUE, p |-> profiles[CHOOSE i \in hits : \A j \in hits : i <= j]]

FindByNumber(profiles, num) ==
    FindResult(profiles, {i \in 1..Len(profiles) : profiles[i].number = num})

FindById(profiles, id) ==
    FindResult(profiles, {i \in 1..Len(profiles) : profiles[i].id = id})

(***************************** api-client.ts *******************************)
\* estimated_minutes: absent (or null), or a number
NoEstimate == [present |-> FALSE, val |-> 0]

Estimate(n) == [present |-> TRUE, val |-> n]

ApiResponse(success, hasData, error, dnr, est) ==
    [success |-> success, hasData |-> hasData, error |-> error,
     data_not_ready |-> dnr, estimated_minutes |-> est]

\* what fetch() and response.json() may give: the call throws, or a status
\* (response.ok or not) with a JSON body
AnswerKinds ==
    {"ok", "ok_empty", "ok_nodata", "ok_malformed", "app_error", "http_error",
     "http_error_bare", "throw", "dnr_est", "dnr_est0", "dnr_noest", "dnr_http"}

\* answers to GET /v1/mcp/profiles
ListAnswerKinds == {"ok", "app_error", "http_error_bare", "throw"}

\* answers to the endpoints that serve campaign and performance data
DataAnswerKinds ==
    {"ok", "ok_empty", "app_error", "throw", "dnr_est", "dnr_est0", "dnr_noest", "dnr_http"}

\* answers to the PATCH and POST endpoints
UpdateAnswerKinds == {"ok", "ok_nodata", "app_error", "throw"}

\* answers to the other GET endpoints
\* answers to the other GET endpoints; "ok_malformed" is a success whose data
\* lacks the member the handler reads
PlainAnswerKinds == {"ok", "ok_empty", "ok_malformed", "app_error", "throw"}

Throws(kind) == kind = "throw"

ResponseOk(kind) == kind \notin {"http_error", "http_error_bare", "dnr_http"}

Body(kind) ==
    CASE kind = "ok" -> ApiResponse(TRUE, TRUE, "", FALSE, NoEstimate)
      [] kind = "ok_empty" -> ApiResponse(TRUE, TRUE, "", FALSE, NoEstimate)
      [] kind = "ok_nodata" -> ApiResponse(TRUE, FALSE, "", FALSE, NoEstimate)
      [] kind = "ok_malformed" -> ApiResponse(TRUE, TRUE, "", FALSE, NoEstimate)
      [] kind = "app_error" -> ApiResponse(FALSE, FALSE, "backend error", FALSE, NoEstimate)
      [] kind = "http_error" -> ApiResponse(FALSE, FALSE, "backend error", FALSE, NoEstimate)
      [] kind = "http_error_bare" -> ApiResponse(FALSE, FALSE, "", FALSE, NoEstimate)
      [] kind = "dnr_est" -> ApiResponse(FALSE, FALSE, "", TRUE, Estimate(5))
      [] kind = "dnr_est0" -> ApiResponse(FALSE, FALSE, "", TRUE, Estimate(0))
      [] kind = "dnr_noest" -> ApiResponse(FALSE, FALSE, "", TRUE, NoEstimate)
      [] kind = "dnr_http" -> ApiResponse(FALSE, FALSE, "", TRUE, Estimate(5))
      [] OTHER -> ApiResponse(FALSE, FALSE, "", FALSE, NoEstimate)

\* ApiClient.request: the ApiResponse the handlers see
request(kind) ==
    IF Throws(kind)
    THEN ApiResponse(FALSE, FALSE, "Request failed", FALSE, NoEstimate)
    ELSE IF ~ResponseOk(kind)
    THEN ApiResponse(FALSE, FALSE,
                     IF Body(kind).error # "" THEN Body(kind).error ELSE "HTTP status",
                     FALSE, NoEstimate)
    ELSE Body(kind)

\* the logError of request's catch
requestLog(kind) == IF Throws(kind) THEN {"API request failed"} ELSE {}

\* one entry of the request log
Req(method, path, profile_id, kind) ==
    [method |-> method, path |-> path, profile_id |-> profile_id, answer |-> kind]

(***************************** resolver ************************************)
NoResolution == [null |-> TRUE, id |-> <<>>, name |-> "", region |-> ""]

Resolution(id, name, region) == [null |-> FALSE, id |-> id, name |-> name, region |-> region]

\* mutant: the '#' is not stripped before parseInt
RefNumber_NoHashStrip(input) ==
    IF input.t = "number" THEN Num(input.n) ELSE parseInt(StringOf(input))

\* line 142: the number the reference "looks like"
RefNumber(input) ==
    IF input.t = "number" THEN Num(input.n) ELSE parseInt(ReplaceFirst(StringOf(input), "#"))

\* mutant: when the list fetch fails the reference is handed on as an identifier
resolveProfileId_FallsBackToInput(input, kind, profiles) ==
    LET num == RefNumber(input)
        response == request(kind)
        hit == FindByNumber(profiles, num.val)
    IN  IF ~num.nan /\ response.success /\ response.hasData /\ hit.found
        THEN Resolution(hit.p.id, hit.p.name, hit.p.region)
        ELSE Resolution(StringOf(input), "", "")

\* mutant: an ordinal that the stored record names is answered from that record
resolveProfileId_RemembersStored(input, kind, profiles) ==
    LET num == RefNumber(input)
        response == request(kind)
        hit == FindByNumber(profiles, num.val)
    IN  IF ~num.nan /\ (~response.success \/ ~response.hasData) THEN NoResolution
        ELSE IF ~num.nan /\ file.st = "json" /\ file.ctx.profileNumber = num.val
        THEN Resolution(file.ctx.profileId, file.ctx.profileName, file.ctx.region)
        ELSE IF ~num.nan /\ hit.found THEN Resolution(hit.p.id, hit.p.name, hit.p.region)
        ELSE Resolution(StringOf(input), "", "")

\* resolveProfileId(input), given the answer to its list fetch (if it makes one)
\* and the listing the Remote Data Service holds at that moment
resolveProfileId(input, kind, profiles) ==
    LET num == RefNumber(input)
        response == request(kind)
        hit == FindByNumber(profiles, num.val)
    IN  IF ~num.nan /\ (~response.success \/ ~response.hasData) THEN NoResolution
        ELSE IF ~num.nan /\ hit.found THEN Resolution(hit.p.id, hit.p.name, hit.p.region)
        ELSE Resolution(StringOf(input), "", "")

\* the requests resolveProfileId issues
resolveRequests(input, kind) ==
    IF RefNumber(input).nan THEN <<>>
    ELSE <<Req("GET", "/v1/mcp/profiles", <<>>, kind)>>

(***************************** context store *******************************)
NoContext ==
    [profileId |-> <<>>, profileNumber |-> 0, profileName |-> "", region |-> "", setAt |-> ""]

Absent == [st |-> "absent", ctx |-> NoContext]

Corrupt == [st |-> "corrupt", ctx |-> NoContext]

(***************************** JSON text of the store **********************)
\* the text is kept by lines, as JSON.stringify(context, null, 2) lays it out:
\* "{", one line per member, "}"
Line(kind, key, value) == [kind |-> kind, key |-> key, value |-> value]

NoLiteral == [type |-> "none", text |-> <<>>]

\* a string value as the units of its text: a sequence of characters is its own
\* units, any other string is one unit with nothing to escape in it
Units(s) == <<s>>

RECURSIVE JSON_escape(_)
JSON_escape(s) ==
    IF s = <<>> THEN <<>>
    ELSE (IF Head(s) \in {"\"", "\\"} THEN <<"\\", Head(s)>> ELSE <<Head(s)>>)
             \o JSON_escape(Tail(s))

RECURSIVE JSON_unescape(_)
JSON_unescape(s) ==
    IF s = <<>> THEN <<>>
    ELSE IF Head(s) = "\\" /\ Len(s) >= 2 THEN <<s[2]>> \o JSON_unescape(Tail(Tail(s)))
    ELSE <<Head(s)>> \o JSON_unescape(Tail(s))

\* mutant: quotes and backslashes go into the text as they are
JSON_quote_Unescaped(s) == [type |-> "string", text |-> <<"\"">> \o s \o <<"\"">>]

\* a string literal
JSON_quote(s) == [type |-> "string", text |-> <<"\"">> \o JSON_escape(s) \o <<"\"">>]

\* a number literal
JSON_number(n) == [type |-> "number", text |-> NumberToString(n)]

\* the end of the string literal that opens at s[1]: the first quote that no
\* backslash escapes (0 when there is none)
RECURSIVE ClosingQuote(_, _)
ClosingQuote(s, i) ==
    IF i > Len(s) THEN 0
    ELSE IF s[i] = "\\" THEN ClosingQuote(s, i + 2)
    ELSE IF s[i] = "\"" THEN i
    ELSE ClosingQuote(s, i + 1)

\* the value a literal parses to (a literal that does not parse has ok = FALSE)
JSON_value(lit) ==
    IF lit.type = "number"
    THEN [ok |-> lit.text # <<>> /\ \A i \in 1..Len(lit.text) : IsDigit(lit.text[i]),
          type |-> "number", n |-> DecimalValue(lit.text), s |-> <<>>]
    ELSE LET body == SubSeq(lit.text, 2, Len(lit.text) - 1)
         IN  [ok |-> /\ Len(lit.text) >= 2
                     /\ Head(lit.text) = "\""
                     /\ ClosingQuote(lit.text, 2) = Len(lit.text),
              type |-> "string", n |-> 0, s |-> JSON_unescape(body)]

\* line 196: JSON.stringify(context, null, 2)
JSON_stringify(context) ==
    << Line("open", "", NoLiteral),
       Line("member", "profileId", JSON_quote(context.profileId)),
       Line("member", "profileNumber", JSON_number(context.profileNumber)),
       Line("member", "profileName", JSON_quote(Units(context.profileName))),
       Line("member", "region", JSON_quote(Units(context.region))),
       Line("member", "setAt", JSON_quote(Units(context.setAt))),
       Line("close", "", NoLiteral) >>

\* the members of an object text, and the value of one (the last of its key)
Members(text) == {i \in 2..(Len(text) - 1) : text[i].kind = "member"}

HasMember(text, key) == \E i \in Members(text) : text[i].key = key

MemberValue(text, key) ==
    LET at == {i \in Members(text) : text[i].key = key}
        last == CHOOSE i \in at : \A j \in at : j <= i
    IN  JSON_value(text[last].value)

\* line 186: JSON.parse(data) as ProfileContext; a member the text lacks is
\* undefined in the record
JSON_parse(text) ==
    LET wellFormed ==
            /\ Len(text) >= 2
            /\ text[1].kind = "open"
            /\ text[Len(text)].kind = "close"
            /\ \A i \in 2..(Len(text) - 1) :
                  text[i].kind = "member" /\ JSON_value(text[i].value).ok
        str(key, undefined) ==
            IF HasMember(text, key) /\ MemberValue(text, key).type = "string"
            THEN MemberValue(text, key).s ELSE undefined
        unit(key) ==
            LET s == str(key, <<>>) IN IF Len(s) = 1 THEN s[1] ELSE ""
    IN  IF ~wellFormed THEN [ok |-> FALSE, value |-> NoContext]
        ELSE [ok |-> TRUE,
              value |-> [profileId |-> str("profileId", <<>>),
                         profileNumber |->
                             IF HasMember(text, "profileNumber")
                                /\ MemberValue(text, "profileNumber").type = "number"
                             THEN MemberValue(text, "profileNumber").n ELSE 0,
                         profileName |-> unit("profileName"),
                         region |-> unit("region"),
                         setAt |-> unit("setAt")]]

\* the length of a text in bytes. A member line is two spaces, the quoted key,
\* colon and space, the literal, a comma and a line end; the last member has no
\* comma; the opening brace has a line end, the closing one has none
RECURSIVE UnitsLength(_)
UnitsLength(s) == IF s = <<>> THEN 0 ELSE Len(Head(s)) + UnitsLength(Tail(s))

LineLength(line) ==
    IF line.kind = "member"
    THEN 2 + (Len(line.key) + 2) + 2 + UnitsLength(line.value.text) + 2
    ELSE IF line.kind = "open" THEN 2 ELSE 1

RECURSIVE LinesLength(_)
LinesLength(text) ==
    IF text = <<>> THEN 0 ELSE LineLength(Head(text)) + LinesLength(Tail(text))

ByteLength(text) == LinesLength(text) - (IF Members(text) = {} THEN 0 ELSE 1)

\* the store with a text in CONTEXT_FILE, as readContext takes it
FileOf(text) ==
    IF JSON_parse(text).ok THEN [st |-> "json", ctx |-> JSON_parse(text).value] ELSE Corrupt

\* line 196: the store after fs.writeFileSync(CONTEXT_FILE, JSON.stringify(context))
Stored(ctx) == FileOf(JSON_stringify(ctx))

\* mutant: the stored profile is checked against the Remote Data Service
readContext_Revalidating(f) ==
    IF f.st = "json" /\ f.ctx.profileId \in ProfileIds /\ backend[f.ctx.profileId].mcp_activated
    THEN [null |-> FALSE, ctx |-> f.ctx]
    ELSE [null |-> TRUE, ctx |-> NoContext]

\* mutant: no catch around the read and the parse, whatever is there is returned
readContext_TrustsFile(f) ==
    IF f.st = "absent" THEN [null |-> TRUE, ctx |-> NoContext]
    ELSE [null |-> FALSE, ctx |-> f.ctx]

\* readContext(): null for a missing file and for one that cannot be read or
\* does not parse
readContext(f) ==
    IF f.st = "json" THEN [null |-> FALSE, ctx |-> f.ctx] ELSE [null |-> TRUE, ctx |-> NoContext]

readContextLog(f) == IF f.st = "corrupt" THEN {"Failed to read context file"} ELSE {}

\* fs.writeFileSync outcomes: written; failed before the file was opened (the
\* file is as it was); failed after truncation (partial content)
IoOutcomes == {"written", "failed_untouched", "failed_truncated"}

\* mutant: the record never reaches the file
writeContext_Discards(f, context, io) == f

\* lines 193-201: the file after fs.writeFileSync, whose failure is caught
writeContext(f, context, io) ==
    CASE io = "written" -> Stored(context)
      [] io = "failed_untouched" -> f
      [] OTHER -> Corrupt

writeContextLog(context, io) ==
    IF io = "written" THEN {"Context updated"} ELSE {"Failed to write context file"}

\* fs.unlinkSync outcomes
UnlinkOutcomes == {"removed", "failed"}

\* mutant: the file is never removed
clearContext_KeepsFile(f, io) == f

\* lines 203-212: nothing to do without a file; a removal that fails is logged
\* and leaves the file
clearContext(f, io) ==
    IF f.st = "absent" THEN f
    ELSE IF io = "removed" THEN Absent
    ELSE f

clearContextLog(f, io) ==
    IF f.st = "absent" THEN {}
    ELSE IF io = "removed" THEN {"Context cleared"}
    ELSE {"Failed to clear context file"}

(***************************** replies *************************************)
\* a reply is the text of its single content item: the text's leading token
\* (what a caller can classify it by) and the rest of the message template
Reply(tool, prefix, rest, ctx) == [tool |-> tool, prefix |-> prefix, rest |-> rest, ctx |-> ctx]

NoReply == Reply("", "", "", NoContext)

\* mutant: the tool-call handler has no catch
Caught_Rethrown(tool, message) == Reply(tool, "throw", message, NoContext)

\* lines 1035-1038: what the catch of the tool-call handler makes of an
\* exception thrown in a case of the switch
Caught(tool, message) == Reply(tool, "Error:", message, NoContext)

\* `Error: ${response.error || fallback}`
ErrorOf(response, fallback) == IF response.error # "" THEN response.error ELSE fallback

(***************************** tool arguments ******************************)
\* the numbers a caller may name: every ordinal, and one past the last
RefNumbers == 1..(MaxOrdinal + 1)

OrdinalStrings == {NumberToString(n) : n \in RefNumbers}

OpaqueStrings ==
    ProfileIds \cup {<<"2", "x">>, <<"#", "z", "z">>}

\* profile_id arguments of set_current_profile and list_campaigns
Refs ==
    {NumArg(n) : n \in RefNumbers}
        \cup {StrArg(s) : s \in OrdinalStrings}
        \cup {StrArg(<<"#">> \o s) : s \in OrdinalStrings}
        \cup {StrArg(s) : s \in OpaqueStrings}

(***************************** set_current_profile *************************)
\* mutant: the mcp_activated check is missing
SetCurrentOutcome_NoActivationCheck(res, kind, profiles, now) ==
    LET listResponse == request(kind)
        hit == FindById(profiles, res.id)
        profile == hit.p
        shown == [NoContext EXCEPT !.profileNumber = profile.number,
                                   !.profileName = profile.name,
                                   !.region = profile.region]
        none(prefix, rest, ctx) ==
            [prefix |-> prefix, rest |-> rest, shown |-> ctx, write |-> FALSE,
             context |-> NoContext]
    IN  IF ~listResponse.success \/ ~listResponse.hasData
        THEN none("Error:", "Failed to fetch profile list", NoContext)
        ELSE IF ~hit.found
        THEN none("Error:", "Profile not found in your account", NoContext)
        ELSE IF profile.mcp_data_status # "ready"
        THEN none("Warning:", "is activated but data is still importing", shown)
        ELSE [prefix |-> "OK", rest |-> "Current working profile set to", shown |-> shown,
              write |-> TRUE,
              context |-> [profileId |-> profile.id, profileNumber |-> profile.number,
                           profileName |-> profile.name, region |-> profile.region,
                           setAt |-> now]]

\* mutant: the ordinal is stored where the identifier belongs
SetCurrentOutcome_StoresOrdinal(res, kind, profiles, now) ==
    LET listResponse == request(kind)
        hit == FindById(profiles, res.id)
        profile == hit.p
        shown == [NoContext EXCEPT !.profileNumber = profile.number,
                                   !.profileName = profile.name,
                                   !.region = profile.region]
        none(prefix, rest, ctx) ==
            [prefix |-> prefix, rest |-> rest, shown |-> ctx, write |-> FALSE,
             context |-> NoContext]
    IN  IF ~listResponse.success \/ ~listResponse.hasData
        THEN none("Error:", "Failed to fetch profile list", NoContext)
        ELSE IF ~hit.found
        THEN none("Error:", "Profile not found in your account", NoContext)
        ELSE IF ~profile.mcp_activated
        THEN none("Error:", "is not activated for MCP access", shown)
        ELSE IF profile.mcp_data_status # "ready"
        THEN none("Warning:", "is activated but data is still importing", shown)
        ELSE [prefix |-> "OK", rest |-> "Current working profile set to", shown |-> shown,
              write |-> TRUE,
              context |-> [profileId |-> NumberToString(profile.number), profileNumber |-> profile.number,
                           profileName |-> profile.name, region |-> profile.region,
                           setAt |-> now]]

\* mutant: the context is saved before the activation checks
SetCurrentOutcome_WritesFirst(res, kind, profiles, now) ==
    LET listResponse == request(kind)
        hit == FindById(profiles, res.id)
        profile == hit.p
        shown == [NoContext EXCEPT !.profileNumber = profile.number,
                                   !.profileName = profile.name,
                                   !.region = profile.region]
        saved == [profileId |-> profile.id, profileNumber |-> profile.number,
                  profileName |-> profile.name, region |-> profile.region, setAt |-> now]
        none(prefix, rest, ctx) ==
            [prefix |-> prefix, rest |-> rest, shown |-> ctx, write |-> FALSE,
             context |-> NoContext]
        kept(prefix, rest, ctx) ==
            [prefix |-> prefix, rest |-> rest, shown |-> ctx, write |-> TRUE,
             context |-> saved]
    IN  IF ~listResponse.success \/ ~listResponse.hasData
        THEN none("Error:", "Failed to fetch profile list", NoContext)
        ELSE IF ~hit.found
        THEN none("Error:", "Profile not found in your account", NoContext)
        ELSE IF ~profile.mcp_activated
        THEN kept("Error:", "is not activated for MCP access", shown)
        ELSE IF profile.mcp_data_status # "ready"
        THEN kept("Warning:", "is activated but data is still importing", shown)
        ELSE [prefix |-> "OK", rest |-> "Current working profile set to", shown |-> shown,
              write |-> TRUE,
              context |-> [profileId |-> profile.id, profileNumber |-> profile.number,
                           profileName |-> profile.name, region |-> profile.region,
                           setAt |-> now]]

\* mutant: the record takes name and region from what the resolver returned
SetCurrentOutcome_KeepsResolverName(res, kind, profiles, now) ==
    LET listResponse == request(kind)
        hit == FindById(profiles, res.id)
        profile == hit.p
        shown == [NoContext EXCEPT !.profileNumber = profile.number,
                                   !.profileName = profile.name,
                                   !.region = profile.region]
        none(prefix, rest, ctx) ==
            [prefix |-> prefix, rest |-> rest, shown |-> ctx, write |-> FALSE,
             context |-> NoContext]
    IN  IF ~listResponse.success \/ ~listResponse.hasData
        THEN none("Error:", "Failed to fetch profile list", NoContext)
        ELSE IF ~hit.found
        THEN none("Error:", "Profile not found in your account", NoContext)
        ELSE IF ~profile.mcp_activated
        THEN none("Error:", "is not activated for MCP access", shown)
        ELSE IF profile.mcp_data_status # "ready"
        THEN none("Warning:", "is activated but data is still importing", shown)
        ELSE [prefix |-> "OK", rest |-> "Current working profile set to", shown |-> shown,
              write |-> TRUE,
              context |-> [profileId |-> profile.id, profileNumber |-> profile.number,
                           profileName |-> res.name, region |-> res.region,
                           setAt |-> now]]

\* lines 983-1030: what the handler decides once `resolved` is known, from the
\* answer to its own list fetch
SetCurrentOutcome(res, kind, profiles, now) ==
    LET listResponse == request(kind)
        hit == FindById(profiles, res.id)
        profile == hit.p
        shown == [NoContext EXCEPT !.profileNumber = profile.number,
                                   !.profileName = profile.name,
                                   !.region = profile.region]
        none(prefix, rest, ctx) ==
            [prefix |-> prefix, rest |-> rest, shown |-> ctx, write |-> FALSE,
             context |-> NoContext]
    IN  IF ~listResponse.success \/ ~listResponse.hasData
        THEN none("Error:", "Failed to fetch profile list", NoContext)
        ELSE IF ~hit.found
        THEN none("Error:", "Profile not found in your account", NoContext)
        ELSE IF ~profile.mcp_activated
        THEN none("Error:", "is not activated for MCP access", shown)
        ELSE IF profile.mcp_data_status # "ready"
        THEN none("Warning:", "is activated but data is still importing", shown)
        ELSE [prefix |-> "OK", rest |-> "Current working profile set to", shown |-> shown,
              write |-> TRUE,
              context |-> [profileId |-> profile.id, profileNumber |-> profile.number,
                           profileName |-> profile.name, region |-> profile.region,
                           setAt |-> now]]

\* lines 974-981: up to the return of resolveProfileId
SetCurrentProfile_Resolve ==
    /\ pc = "idle"
    /\ \E input \in Refs, kind \in ListAnswerKinds :
          LET r == resolveProfileId(input, kind, ProfileListing(backend))
              rq == resolveRequests(input, kind)
          IN  /\ arg' = input
              /\ reqs' = rq
              /\ log' = IF rq = <<>> THEN {} ELSE requestLog(kind)
              /\ resolved' = r
              /\ IF r.null
                 THEN /\ pc' = "done"
                      /\ reply' = Reply("set_current_profile", "Error:",
                                        "Could not resolve profile", NoContext)
                 ELSE /\ pc' = "set_current_profile"
                      /\ reply' = NoReply
    /\ UNCHANGED <<backend, file>>

\* mutant: writeContext has no catch, a failed write reaches the handler's catch
SetCurrentProfile_Select_WriteThrows ==
    /\ pc = "set_current_profile"
    /\ \E kind \in ListAnswerKinds, now \in Times :
          LET o == SetCurrentOutcome(resolved, kind, ProfileListing(backend), now)
          IN  /\ reqs' = Append(reqs, Req("GET", "/v1/mcp/profiles", <<>>, kind))
              /\ IF o.write
                 THEN \E io \in IoOutcomes :
                         /\ file' = writeContext(file, o.context, io)
                         /\ log' = log \cup requestLog(kind) \cup writeContextLog(o.context, io)
                         /\ reply' = IF io = "written"
                                     THEN Reply("set_current_profile", o.prefix, o.rest, o.shown)
                                     ELSE Caught("set_current_profile", "EACCES")
                 ELSE /\ file' = file
                      /\ log' = log \cup requestLog(kind)
                      /\ reply' = Reply("set_current_profile", o.prefix, o.rest, o.shown)
    /\ pc' = "done"
    /\ UNCHANGED <<backend, resolved, arg>>

\* lines 983-1030: the handler's list fetch, its checks and writeContext
SetCurrentProfile_Select ==
    /\ pc = "set_current_profile"
    /\ \E kind \in ListAnswerKinds, now \in Times :
          LET o == SetCurrentOutcome(resolved, kind, ProfileListing(backend), now)
          IN  /\ reqs' = Append(reqs, Req("GET", "/v1/mcp/profiles", <<>>, kind))
              /\ IF o.write
                 THEN \E io \in IoOutcomes :
                         /\ file' = writeContext(file, o.context, io)
                         /\ log' = log \cup requestLog(kind) \cup writeContextLog(o.context, io)
                 ELSE /\ file' = file
                      /\ log' = log \cup requestLog(kind)
              /\ reply' = Reply("set_current_profile", o.prefix, o.rest, o.shown)
    /\ pc' = "done"
    /\ UNCHANGED <<backend, resolved, arg>>

(***************************** list_campaigns ******************************)
\* lines 608-613
ListCampaigns_Resolve ==
    /\ pc = "idle"
    /\ \E input \in Refs, kind \in ListAnswerKinds :
          LET r == resolveProfileId(input, kind, ProfileListing(backend))
              rq == resolveRequests(input, kind)
          IN  /\ arg' = input
              /\ reqs' = rq
              /\ log' = IF rq = <<>> THEN {} ELSE requestLog(kind)
              /\ resolved' = r
              /\ IF r.null
                 THEN /\ pc' = "done"
                      /\ reply' = Reply("list_campaigns", "Error:",
                                        "Could not resolve profile", NoContext)
                 ELSE /\ pc' = "list_campaigns"
                      /\ reply' = NoReply
    /\ UNCHANGED <<backend, file>>

\* the text a handler of index.ts makes of the answer to a data fetch; reading
\* the length of a list that the data lacks throws a TypeError
DataReply(tool, response, kind, fallback) ==
    IF ~response.success \/ ~response.hasData
    THEN Reply(tool, "Error:", ErrorOf(response, fallback), NoContext)
    ELSE IF kind = "ok_malformed" THEN Caught(tool, "TypeError")
    ELSE IF kind = "ok_empty" THEN Reply(tool, "No", "found", NoContext)
    ELSE Reply(tool, "Found", "formatted", NoContext)

\* lines 615-631
ListCampaigns_Fetch ==
    /\ pc = "list_campaigns"
    /\ \E kind \in DataAnswerKinds :
          /\ reqs' = Append(reqs, Req("GET", "/v1/amazon/campaigns", resolved.id, kind))
          /\ log' = log \cup requestLog(kind)
          /\ reply' = DataReply("list_campaigns", request(kind), kind,
                                "Failed to fetch campaigns")
    /\ pc' = "done"
    /\ UNCHANGED <<backend, file, resolved, arg>>

(***************************** pass-through tools **************************)
\* profile_id arguments of the tools that hand the argument on as it is
PassRefs == {StrArg(<<"a", "1">>)}

\* mutant: a request that failed is sent a second time
OneRequest_RetriesOnFailure(input, rq, r) ==
    /\ pc = "idle"
    /\ arg' = input
    /\ resolved' = NoResolution
    /\ reqs' = IF Throws(rq.answer) \/ ~ResponseOk(rq.answer) THEN <<rq, rq>> ELSE <<rq>>
    /\ log' = requestLog(rq.answer)
    /\ reply' = r
    /\ pc' = "done"
    /\ UNCHANGED <<backend, file>>

\* a handler with one outbound request: the request, then the reply
OneRequest(input, rq, r) ==
    /\ pc = "idle"
    /\ arg' = input
    /\ resolved' = NoResolution
    /\ reqs' = <<rq>>
    /\ log' = requestLog(rq.answer)
    /\ reply' = r
    /\ pc' = "done"
    /\ UNCHANGED <<backend, file>>

\* the text a PATCH handler of index.ts makes of the answer
UpdateReply(tool, response, fallback) ==
    IF ~response.success THEN Reply(tool, "Error:", ErrorOf(response, fallback), NoContext)
    ELSE Reply(tool, "updated", "message", NoContext)

\* a handler that formats whatever data arrived, with no empty case
FetchReply(tool, response, fallback) ==
    IF ~response.success \/ ~response.hasData
    THEN Reply(tool, "Error:", ErrorOf(response, fallback), NoContext)
    ELSE Reply(tool, "**", "formatted", NoContext)

\* lines 582-596
ListProfiles ==
    \E kind \in PlainAnswerKinds :
        OneRequest(NoArg, Req("GET", "/v1/amazon/profiles", <<>>, kind),
                   DataReply("list_profiles", request(kind), kind, "Failed to fetch profiles"))

\* lines 598-606
GetProfile ==
    \E input \in PassRefs, kind \in PlainAnswerKinds :
        OneRequest(input, Req("GET", "/v1/amazon/profiles/{id}", StringOf(input), kind),
                   FetchReply("get_profile", request(kind), "Profile not found"))

\* lines 634-641
GetCampaign ==
    \E input \in PassRefs, kind \in PlainAnswerKinds :
        OneRequest(input, Req("GET", "/v1/amazon/campaigns/{id}", StringOf(input), kind),
                   FetchReply("get_campaign", request(kind), "Campaign not found"))

\* lines 643-652
UpdateCampaignStatus ==
    \E input \in PassRefs, kind \in UpdateAnswerKinds :
        OneRequest(input,
                   Req("PATCH", "/v1/amazon/campaigns/{id}/status", StringOf(input), kind),
                   UpdateReply("update_campaign_status", request(kind),
                               "Failed to update status"))

\* lines 654-663
UpdateCampaignBudget ==
    \E input \in PassRefs, kind \in UpdateAnswerKinds :
        OneRequest(input,
                   Req("PATCH", "/v1/amazon/campaigns/{id}/budget", StringOf(input), kind),
                   UpdateReply("update_campaign_budget", request(kind),
                               "Failed to update budget"))

\* lines 665-679
SearchCampaigns ==
    \E input \in PassRefs, kind \in DataAnswerKinds :
        OneRequest(input, Req("GET", "/v1/amazon/campaigns/search", StringOf(input), kind),
                   DataReply("search_campaigns", request(kind), kind, "Search failed"))

\* lines 681-700
ListKeywords ==
    \E input \in PassRefs, kind \in PlainAnswerKinds :
        OneRequest(input, Req("GET", "/v1/amazon/keywords", StringOf(input), kind),
                   DataReply("list_keywords", request(kind), kind, "Failed to fetch keywords"))

\* lines 702-711
UpdateKeywordBid ==
    \E input \in PassRefs, kind \in UpdateAnswerKinds :
        OneRequest(input,
                   Req("PATCH", "/v1/amazon/keywords/{id}/bid", StringOf(input), kind),
                   UpdateReply("update_keyword_bid", request(kind), "Failed to update bid"))

\* lines 713-722
UpdateKeywordStatus ==
    \E input \in PassRefs, kind \in UpdateAnswerKinds :
        OneRequest(input,
                   Req("PATCH", "/v1/amazon/keywords/{id}/status", StringOf(input), kind),
                   UpdateReply("update_keyword_status", request(kind),
                               "Failed to update status"))

\* lines 724-783
GetPerformance ==
    \E input \in PassRefs, kind \in DataAnswerKinds :
        OneRequest(input,
                   Req("GET", "/v1/amazon/reports/performance", StringOf(input), kind),
                   FetchReply("get_performance", request(kind), "Failed to fetch performance"))

\* lines 785-829
GetCampaignPerformance ==
    \E input \in PassRefs, kind \in DataAnswerKinds :
        OneRequest(input,
                   Req("GET", "/v1/amazon/reports/campaign-performance", StringOf(input), kind),
                   DataReply("get_campaign_performance", request(kind), kind,
                             "Failed to fetch campaign performance"))

\* line 843: profiles.filter(p => p.is_ready)
ReadyProfiles(profiles) == SelectSeq(profiles, LAMBDA p : p.is_ready)

\* mutant: every activated profile counts as importing
ImportingProfiles_IgnoresReadiness(profiles) ==
    SelectSeq(profiles, LAMBDA p : p.mcp_activated)

\* line 844: profiles.filter(p => p.mcp_activated && !p.is_ready)
ImportingProfiles(profiles) == SelectSeq(profiles, LAMBDA p : p.mcp_activated /\ ~p.is_ready)

\* line 845: profiles.filter(p => !p.mcp_activated)
NotActivatedProfiles(profiles) == SelectSeq(profiles, LAMBDA p : ~p.mcp_activated)

\* one line of the text of list_mcp_profiles: a heading with the size of its
\* group, or a profile under the heading before it
HeadingLine(title, count) == [head |-> title, number |-> count, name |-> "", status |-> ""]

ProfileLine(p, status) == [head |-> "", number |-> p.number, name |-> p.name, status |-> status]

\* lines 849-872: a group is written when it has members, heading first
GroupLines(title, members, withStatus) ==
    IF Len(members) = 0 THEN <<>>
    ELSE <<HeadingLine(title, Len(members))>>
            \o [i \in 1..Len(members) |->
                   ProfileLine(members[i],
                               IF withStatus THEN members[i].mcp_data_status ELSE "")]

\* lines 834-876: the reply of list_mcp_profiles; lines is the body of its text
ListMcpProfilesReply(response, profiles) ==
    IF ~response.success \/ ~response.hasData
    THEN Reply("list_mcp_profiles", "Error:", ErrorOf(response, "Failed to fetch profiles"),
               NoContext)
    ELSE IF Len(profiles) = 0
    THEN Reply("list_mcp_profiles", "No", "Amazon advertising profiles found", NoContext)
    ELSE [tool |-> "list_mcp_profiles", prefix |-> "Found", rest |-> "profile(s):",
          ctx |-> NoContext,
          lines |-> GroupLines("**Ready for Queries", ReadyProfiles(profiles), FALSE)
                       \o GroupLines("**Importing Data", ImportingProfiles(profiles), TRUE)
                       \o GroupLines("**Not Activated", NotActivatedProfiles(profiles),
                                     FALSE)]

\* lines 832-877
ListMcpProfiles ==
    \E kind \in ListAnswerKinds :
        OneRequest(NoArg, Req("GET", "/v1/mcp/profiles", <<>>, kind),
                   ListMcpProfilesReply(request(kind), ProfileListing(backend)))

\* lines 1032-1033
UnknownTool ==
    /\ pc = "idle"
    /\ arg' = NoArg
    /\ resolved' = NoResolution
    /\ reqs' = <<>>
    /\ log' = {}
    /\ reply' = Reply("unknown", "Unknown tool:", "name", NoContext)
    /\ pc' = "done"
    /\ UNCHANGED <<backend, file>>

(***************************** src/tools handlers **************************)
\* reports.ts lines 37-55 and campaigns.ts lines 194-212: the not-ready shape
\* is looked at before success
NotReadyAwareReply(tool, response, kind, fallback) ==
    IF response.data_not_ready
    THEN Reply(tool, "**Data Not Yet Available**",
               IF response.estimated_minutes.present /\ response.estimated_minutes.val # 0
               THEN "Estimated time" ELSE "Please try again later.",
               NoContext)
    ELSE DataReply(tool, response, kind, fallback)

\* reports.ts lines 31-103
Reports_get_performance ==
    \E input \in PassRefs, kind \in DataAnswerKinds :
        OneRequest(input,
                   Req("GET", "/v1/amazon/reports/performance", StringOf(input), kind),
                   NotReadyAwareReply("reports.get_performance", request(kind), kind,
                                      "Failed to fetch performance data"))

\* campaigns.ts lines 188-232
Campaigns_search_campaigns ==
    \E input \in PassRefs, kind \in DataAnswerKinds :
        OneRequest(input, Req("GET", "/v1/amazon/campaigns/search", StringOf(input), kind),
                   NotReadyAwareReply("campaigns.search_campaigns", request(kind), kind,
                                      "Search failed"))

\* campaigns.ts lines 31-67
Campaigns_list_campaigns ==
    \E input \in PassRefs, kind \in DataAnswerKinds :
        OneRequest(input, Req("GET", "/v1/amazon/campaigns", StringOf(input), kind),
                   DataReply("campaigns.list_campaigns", request(kind), kind,
                             "Failed to fetch campaigns"))

(***************************** profile lifecycle tools *********************)
\* mutant: a profile that is already activated is not activated again
LookupByNumber_RefusesActivated(tool, next, notFound) ==
    /\ pc = "idle"
    /\ \E n \in RefNumbers, kind \in ListAnswerKinds :
          LET listResponse == request(kind)
              hit == FindByNumber(ProfileListing(backend), n)
          IN  /\ arg' = NumArg(n)
              /\ reqs' = <<Req("GET", "/v1/mcp/profiles", <<>>, kind)>>
              /\ log' = requestLog(kind)
              /\ IF ~listResponse.success \/ ~listResponse.hasData
                 THEN /\ reply' = Reply(tool, "Error:",
                                        ErrorOf(listResponse, "Failed to fetch profiles"),
                                        NoContext)
                      /\ resolved' = NoResolution
                      /\ pc' = "done"
                 ELSE IF ~hit.found
                 THEN /\ reply' = Reply(tool, "Error:", notFound, NoContext)
                      /\ resolved' = NoResolution
                      /\ pc' = "done"
                 ELSE IF tool = "activate_mcp_profile" /\ hit.p.mcp_activated
                 THEN /\ reply' = Reply(tool, "Error:", "Profile is already activated",
                                        NoContext)
                      /\ resolved' = NoResolution
                      /\ pc' = "done"
                 ELSE /\ reply' = NoReply
                      /\ resolved' = Resolution(hit.p.id, hit.p.name, hit.p.region)
                      /\ pc' = next
    /\ UNCHANGED <<backend, file>>

\* mutant: a number that no listed profile has is handed on as an identifier
LookupByNumber_FallsBackToNumber(tool, next, notFound) ==
    /\ pc = "idle"
    /\ \E n \in RefNumbers, kind \in ListAnswerKinds :
          LET listResponse == request(kind)
              hit == FindByNumber(ProfileListing(backend), n)
          IN  /\ arg' = NumArg(n)
              /\ reqs' = <<Req("GET", "/v1/mcp/profiles", <<>>, kind)>>
              /\ log' = requestLog(kind)
              /\ IF ~listResponse.success \/ ~listResponse.hasData
                 THEN /\ reply' = Reply(tool, "Error:",
                                        ErrorOf(listResponse, "Failed to fetch profiles"),
                                        NoContext)
                      /\ resolved' = NoResolution
                      /\ pc' = "done"
                 ELSE /\ reply' = NoReply
                      /\ resolved' = IF hit.found
                                     THEN Resolution(hit.p.id, hit.p.name, hit.p.region)
                                     ELSE Resolution(NumberToString(n), "", "")
                      /\ pc' = next
    /\ UNCHANGED <<backend, file>>

\* lines 883-891, 916-924, 954-962: the list fetch and the search by number
\* that activate, check and deactivate start with
LookupByNumber(tool, next, notFound) ==
    /\ pc = "idle"
    /\ \E n \in RefNumbers, kind \in ListAnswerKinds :
          LET listResponse == request(kind)
              hit == FindByNumber(ProfileListing(backend), n)
          IN  /\ arg' = NumArg(n)
              /\ reqs' = <<Req("GET", "/v1/mcp/profiles", <<>>, kind)>>
              /\ log' = requestLog(kind)
              /\ IF ~listResponse.success \/ ~listResponse.hasData
                 THEN /\ reply' = Reply(tool, "Error:",
                                        ErrorOf(listResponse, "Failed to fetch profiles"),
                                        NoContext)
                      /\ resolved' = NoResolution
                      /\ pc' = "done"
                 ELSE IF ~hit.found
                 THEN /\ reply' = Reply(tool, "Error:", notFound, NoContext)
                      /\ resolved' = NoResolution
                      /\ pc' = "done"
                 ELSE /\ reply' = NoReply
                      /\ resolved' = Resolution(hit.p.id, hit.p.name, hit.p.region)
                      /\ pc' = next
    /\ UNCHANGED <<backend, file>>

\* mutant: an accepted activation starts the import again, whatever the state
ActivateEffect_Restarts(b, id, accepted) ==
    IF accepted /\ id \in ProfileIds
    THEN [b EXCEPT ![id].mcp_activated = TRUE, ![id].mcp_data_status = "pending"]
    ELSE b

\* the Remote Data Service on POST /v1/mcp/profiles/activate: an accepted
\* request starts the import of a profile that was not activated
ActivateEffect(b, id, accepted) ==
    IF accepted /\ id \in ProfileIds /\ ~b[id].mcp_activated
    THEN [b EXCEPT ![id].mcp_activated = TRUE, ![id].mcp_data_status = "pending"]
    ELSE b

\* the Remote Data Service on POST /v1/mcp/profiles/deactivate
DeactivateEffect(b, id, accepted) ==
    IF accepted /\ id \in ProfileIds
    THEN [b EXCEPT ![id].mcp_activated = FALSE, ![id].mcp_data_status = "null"]
    ELSE b

\* whether the service acted on a request: it did when it answered success, it did
\* not when it answered an error, and either may be so when the transport failed
Accepted(kind) ==
    IF Throws(kind) THEN BOOLEAN
    ELSE IF request(kind).success THEN {TRUE} ELSE {FALSE}

\* lines 879-891
Activate_Lookup ==
    LookupByNumber("activate_mcp_profile", "activate_mcp_profile",
                   "Profile not found. Use list_profiles to see available profiles.")

\* mutant: the identifier of the working context is sent when there is one
Activate_Post_SendsContextProfile ==
    /\ pc = "activate_mcp_profile"
    /\ \E kind \in UpdateAnswerKinds :
          LET id == IF readContext(file).null THEN resolved.id
                    ELSE readContext(file).ctx.profileId
          IN  /\ \E accepted \in Accepted(kind) :
                    backend' = ActivateEffect(backend, id, accepted)
              /\ reqs' = Append(reqs, Req("POST", "/v1/mcp/profiles/activate", id, kind))
              /\ log' = log \cup requestLog(kind)
              /\ reply' = IF ~request(kind).success
                          THEN Reply("activate_mcp_profile", "Error:",
                                     ErrorOf(request(kind), "Failed to activate profile"),
                                     NoContext)
                          ELSE Reply("activate_mcp_profile",
                                     "**Profile Activated for MCP Access**",
                                     "Data import has started", NoContext)
    /\ pc' = "done"
    /\ UNCHANGED <<file, resolved, arg>>

\* lines 893-910
Activate_Post ==
    /\ pc = "activate_mcp_profile"
    /\ \E kind \in UpdateAnswerKinds :
          /\ \E accepted \in Accepted(kind) :
                backend' = ActivateEffect(backend, resolved.id, accepted)
          /\ reqs' = Append(reqs, Req("POST", "/v1/mcp/profiles/activate", resolved.id, kind))
          /\ log' = log \cup requestLog(kind)
          /\ reply' = IF ~request(kind).success
                      THEN Reply("activate_mcp_profile", "Error:",
                                 ErrorOf(request(kind), "Failed to activate profile"),
                                 NoContext)
                      ELSE Reply("activate_mcp_profile", "**Profile Activated for MCP Access**",
                                 "Data import has started", NoContext)
    /\ pc' = "done"
    /\ UNCHANGED <<file, resolved, arg>>

\* mutant: the status request leaves together with the list fetch
CheckStatus_Lookup_FansOut ==
    /\ pc = "idle"
    /\ \E n \in RefNumbers, kind \in ListAnswerKinds, second \in PlainAnswerKinds :
          /\ arg' = NumArg(n)
          /\ reqs' = <<Req("GET", "/v1/mcp/profiles", <<>>, kind),
                       Req("GET", "/v1/mcp/profiles/{id}/status", <<>>, second)>>
          /\ log' = requestLog(kind) \cup requestLog(second)
          /\ reply' = Reply("check_mcp_status", "Error:", "Profile not found.", NoContext)
          /\ resolved' = NoResolution
          /\ pc' = "done"
    /\ UNCHANGED <<backend, file>>

\* lines 912-924
CheckStatus_Lookup ==
    LookupByNumber("check_mcp_status", "check_mcp_status", "Profile not found.")

\* mutant: the status is asked for with a POST that restarts the import
CheckStatus_Get_Posts ==
    /\ pc = "check_mcp_status"
    /\ \E kind \in PlainAnswerKinds :
          /\ reqs' = Append(reqs, Req("POST", "/v1/mcp/profiles/activate", resolved.id, kind))
          /\ log' = log \cup requestLog(kind)
          /\ reply' = IF ~request(kind).success \/ ~request(kind).hasData
                      THEN Reply("check_mcp_status", "Error:",
                                 ErrorOf(request(kind), "Failed to get status"), NoContext)
                      ELSE Reply("check_mcp_status", "**MCP Status:",
                                 backend[resolved.id].mcp_data_status, NoContext)
    /\ pc' = "done"
    /\ UNCHANGED <<backend, file, resolved, arg>>

\* lines 926-948
CheckStatus_Get ==
    /\ pc = "check_mcp_status"
    /\ \E kind \in PlainAnswerKinds :
          /\ reqs' = Append(reqs, Req("GET", "/v1/mcp/profiles/{id}/status", resolved.id, kind))
          /\ log' = log \cup requestLog(kind)
          /\ reply' = IF ~request(kind).success \/ ~request(kind).hasData
                      THEN Reply("check_mcp_status", "Error:",
                                 ErrorOf(request(kind), "Failed to get status"), NoContext)
                      ELSE Reply("check_mcp_status", "**MCP Status:",
                                 backend[resolved.id].mcp_data_status, NoContext)
    /\ pc' = "done"
    /\ UNCHANGED <<backend, file, resolved, arg>>

\* lines 950-962
Deactivate_Lookup ==
    LookupByNumber("deactivate_mcp_profile", "deactivate_mcp_profile", "Profile not found.")

\* mutant: deactivating a profile also clears the working context
Deactivate_Post_ClearsContext ==
    /\ pc = "deactivate_mcp_profile"
    /\ \E kind \in UpdateAnswerKinds :
          /\ \E accepted \in Accepted(kind) :
                backend' = DeactivateEffect(backend, resolved.id, accepted)
          /\ reqs' = Append(reqs,
                            Req("POST", "/v1/mcp/profiles/deactivate", resolved.id, kind))
          /\ log' = log \cup requestLog(kind)
          /\ reply' = IF ~request(kind).success
                      THEN Reply("deactivate_mcp_profile", "Error:",
                                 ErrorOf(request(kind), "Failed to deactivate profile"),
                                 NoContext)
                      ELSE Reply("deactivate_mcp_profile", "**", "deactivated from MCP access.",
                                 NoContext)
    /\ pc' = "done"
    /\ file' = clearContext(file, "removed")
    /\ UNCHANGED <<resolved, arg>>

\* lines 964-971
Deactivate_Post ==
    /\ pc = "deactivate_mcp_profile"
    /\ \E kind \in UpdateAnswerKinds :
          /\ \E accepted \in Accepted(kind) :
                backend' = DeactivateEffect(backend, resolved.id, accepted)
          /\ reqs' = Append(reqs,
                            Req("POST", "/v1/mcp/profiles/deactivate", resolved.id, kind))
          /\ log' = log \cup requestLog(kind)
          /\ reply' = IF ~request(kind).success
                      THEN Reply("deactivate_mcp_profile", "Error:",
                                 ErrorOf(request(kind), "Failed to deactivate profile"),
                                 NoContext)
                      ELSE Reply("deactivate_mcp_profile", "**", "deactivated from MCP access.",
                                 NoContext)
    /\ pc' = "done"
    /\ UNCHANGED <<file, resolved, arg>>

(***************************** resources and prompts ***********************)
\* a handler that makes no outbound request
Local(r, l) ==
    /\ pc = "idle"
    /\ arg' = NoArg
    /\ resolved' = NoResolution
    /\ reqs' = <<>>
    /\ log' = l
    /\ reply' = r
    /\ pc' = "done"
    /\ UNCHANGED <<backend, file>>

\* lines 1063-1096
ReadResource_Help == Local(Reply("ppc://help", "PPC Prophet MCP Server", "help", NoContext), {})

\* lines 1098-1135
ReadResource_Context ==
    LET context == readContext(file)
    IN  Local(IF context.null
              THEN Reply("ppc://context", "not_set", "No working profile is currently set.",
                         NoContext)
              ELSE Reply("ppc://context", "active", "Working with:", context.ctx),
              readContextLog(file))

\* line 1137: the handler throws
ReadResource_Unknown ==
    Local(Reply("resource", "throw", "Resource not found", NoContext), {})

\* lines 1155-1214
GetPrompt_ContextAware ==
    LET context == readContext(file)
    IN  Local(IF context.null
              THEN Reply("context-aware", "No profile context set",
                         "No working profile is currently set.", NoContext)
              ELSE Reply("context-aware", "Current working profile:",
                         "Automatically use profile_id=profileNumber",
                         [context.ctx EXCEPT !.profileId = <<>>]),
              readContextLog(file))

\* line 1216: the handler throws
GetPrompt_Unknown == Local(Reply("prompt", "throw", "Prompt not found", NoContext), {})

(***************************** Remote Data Service *************************)
\* the import pipeline moves an activated profile one phase on
Backend_Advance ==
    \E p \in ProfileIds :
        /\ pc # "done"
        /\ backend[p].mcp_data_status \in {"pending", "retrieving", "importing"}
        /\ backend' = [backend EXCEPT ![p].mcp_data_status =
                          CASE @ = "pending" -> "retrieving"
                            [] @ = "retrieving" -> "importing"
                            [] OTHER -> "ready"]
        /\ UNCHANGED <<file, pc, resolved, arg, reqs, reply, log>>

\* an import fails
Backend_Fail ==
    \E p \in ProfileIds :
        /\ pc # "done"
        /\ backend[p].mcp_data_status \in {"pending", "retrieving", "importing"}
        /\ backend' = [backend EXCEPT ![p].mcp_data_status = "error"]
        /\ UNCHANGED <<file, pc, resolved, arg, reqs, reply, log>>

\* another client activates or deactivates a profile
Backend_ToggleElsewhere ==
    \E p \in ProfileIds :
        /\ pc # "done"
        /\ backend' = [backend EXCEPT
                          ![p].mcp_activated = ~@,
                          ![p].mcp_data_status = IF backend[p].mcp_activated
                                                 THEN "null" ELSE "pending"]
        /\ UNCHANGED <<file, pc, resolved, arg, reqs, reply, log>>

\* the service hands out the ordinals anew
Backend_Renumber ==
    \E b \in BackendStates :
        /\ pc # "done"
        /\ b # backend
        /\ \A p \in ProfileIds :
              /\ b[p].mcp_activated = backend[p].mcp_activated
              /\ b[p].mcp_data_status = backend[p].mcp_data_status
        /\ backend' = b
        /\ UNCHANGED <<file, pc, resolved, arg, reqs, reply, log>>

(***************************** transport ***********************************)
\* the reply leaves for the caller and the next request is awaited
Deliver ==
    /\ pc = "done"
    /\ pc' = "idle"
    /\ resolved' = NoResolution
    /\ arg' = NoArg
    /\ reqs' = <<>>
    /\ reply' = NoReply
    /\ log' = {}
    /\ UNCHANGED <<backend, file>>

(***************************** specification *******************************)
\* the listing of the spec's end-to-end scenario, and no context file yet
Init ==
    /\ backend = [p \in ProfileIds |->
                    IF p = <<"a", "1">>
                    THEN [number |-> 1, mcp_activated |-> FALSE, mcp_data_status |-> "null"]
                    ELSE [number |-> 2, mcp_activated |-> TRUE, mcp_data_status |-> "ready"]]
    /\ file = Absent
    /\ pc = "idle"
    /\ resolved = NoResolution
    /\ arg = NoArg
    /\ reqs = <<>>
    /\ reply = NoReply
    /\ log = {}

Next ==
    \/ SetCurrentProfile_Resolve
    \/ SetCurrentProfile_Select
    \/ ListCampaigns_Resolve
    \/ ListCampaigns_Fetch
    \/ ListProfiles
    \/ GetProfile
    \/ GetCampaign
    \/ UpdateCampaignStatus
    \/ UpdateCampaignBudget
    \/ SearchCampaigns
    \/ ListKeywords
    \/ UpdateKeywordBid
    \/ UpdateKeywordStatus
    \/ GetPerformance
    \/ GetCampaignPerformance
    \/ ListMcpProfiles
    \/ UnknownTool
    \/ Reports_get_performance
    \/ Campaigns_search_campaigns
    \/ Campaigns_list_campaigns
    \/ Activate_Lookup
    \/ Activate_Post
    \/ CheckStatus_Lookup
    \/ CheckStatus_Get
    \/ Deactivate_Lookup
    \/ Deactivate_Post
    \/ ReadResource_Help
    \/ ReadResource_Context
    \/ ReadResource_Unknown
    \/ GetPrompt_ContextAware
    \/ GetPrompt_Unknown
    \/ Backend_Advance
    \/ Backend_Fail
    \/ Backend_ToggleElsewhere
    \/ Backend_Renumber
    \/ Deliver

Spec == Init /\ [][Next]_vars

(***************************** the store under local processes *************)
\* The context file is shared by every server process of the user.  Here the
\* three store functions are run by two processes on one file, a step per
\* system call that another process can see the effect of.  The variables are
\* those of the server, one value per process:
\*   pc[p]        where p is in writeContext ("idle" outside it)
\*   arg[p]       the context of p's latest writeContext
\*   resolved[p]  the store as that writeContext found it
\*   reply[p]     what p's latest store call returned
\*   reqs         the store call the latest step belongs to
\*   log          the lines the latest step logged
\* and file carries the length of its text besides what readContext makes of it.
Procs == {"p1", "p2"}

ContextOf(id, number) ==
    [profileId |-> id, profileNumber |-> number, profileName |-> NameOf(id),
     region |-> RegionOf(id), setAt |-> CHOOSE now \in Times : TRUE]

\* the records set_current_profile writes for the two profiles, and one whose
\* identifier needs escaping and whose number has two digits
StoreContexts ==
    { ContextOf(<<"a", "1">>, 1), ContextOf(<<"b", "2">>, 2),
      [ContextOf(<<"a", "1">>, 10) EXCEPT !.profileId = <<"\"", "\\">>] }

OnDisk(f, len) == [st |-> f.st, ctx |-> f.ctx, len |-> len]

TextLength(context) == ByteLength(JSON_stringify(context))

\* fs.writeFileSync opens with flag 'w': the file is created or cut to nothing
Truncated == OnDisk(Corrupt, 0)

\* the write of a text at offset 0 of a file opened before: bytes beyond the
\* text stay, and a text with a tail of another one after it does not parse
Overlay(f, text) ==
    IF ByteLength(text) >= f.len THEN OnDisk(FileOf(text), ByteLength(text))
    ELSE OnDisk(Corrupt, f.len)

Result(op, ok, null, ctx) == [op |-> op, ok |-> ok, null |-> null, ctx |-> ctx]

NoResult == Result("none", TRUE, TRUE, NoContext)

Call(p, op) == <<[proc |-> p, call |-> op]>>

\* lines 194-196: ensureContextDir and the open of fs.writeFileSync
Store_Open(p) ==
    /\ pc[p] = "idle"
    /\ \E context \in StoreContexts, io \in {"opened", "failed"} :
          /\ arg' = [arg EXCEPT ![p] = context]
          /\ resolved' = [resolved EXCEPT ![p] = file]
          /\ IF io = "opened"
             THEN /\ file' = Truncated
                  /\ pc' = [pc EXCEPT ![p] = "writeFileSync"]
                  /\ reply' = [reply EXCEPT ![p] = NoResult]
                  /\ log' = {}
             ELSE /\ file' = OnDisk(writeContext(file, context, "failed_untouched"), file.len)
                  /\ pc' = pc
                  /\ reply' = [reply EXCEPT
                                 ![p] = Result("writeContext", FALSE, TRUE, NoContext)]
                  /\ log' = writeContextLog(context, "failed_untouched")
    /\ reqs' = Call(p, "writeContext")
    /\ UNCHANGED backend

\* lines 196-199: the write of fs.writeFileSync, and the log line
Store_Write(p) ==
    /\ pc[p] = "writeFileSync"
    /\ \E io \in {"written", "failed_truncated"} :
          /\ file' = IF io = "written" THEN Overlay(file, JSON_stringify(arg[p])) ELSE file
          /\ reply' = [reply EXCEPT
                         ![p] = Result("writeContext", io = "written", TRUE, NoContext)]
          /\ log' = writeContextLog(arg[p], io)
    /\ pc' = [pc EXCEPT ![p] = "idle"]
    /\ reqs' = Call(p, "writeContext")
    /\ UNCHANGED <<backend, resolved, arg>>

\* lines 180-191
Store_Read(p) ==
    /\ pc[p] = "idle"
    /\ reply' = [reply EXCEPT
                   ![p] = Result("readContext", TRUE, readContext(file).null,
                                 readContext(file).ctx)]
    /\ log' = readContextLog(file)
    /\ reqs' = Call(p, "readContext")
    /\ UNCHANGED <<backend, file, pc, resolved, arg>>

\* lines 203-212.  No handler of the server calls clearContext: it runs here
\* while no writeContext is under way
Store_Clear(p) ==
    /\ \A q \in Procs : pc[q] = "idle"
    /\ \E io \in UnlinkOutcomes :
          LET f == clearContext(file, io)
          IN  /\ file' = OnDisk(f, IF f.st = "absent" THEN 0 ELSE file.len)
              /\ log' = clearContextLog(file, io)
              /\ reply' = [reply EXCEPT
                             ![p] = Result("clearContext",
                                           "Failed to clear context file" \notin log',
                                           TRUE, NoContext)]
              /\ resolved' = [resolved EXCEPT ![p] = file]
    /\ reqs' = Call(p, "clearContext")
    /\ UNCHANGED <<backend, pc, arg>>

StoreInit ==
    /\ backend = [p \in ProfileIds |->
                    [number |-> 1, mcp_activated |-> FALSE, mcp_data_status |-> "null"]]
    /\ file \in {OnDisk(Absent, 0), Truncated}
                  \cup {OnDisk(Stored(c), TextLength(c)) : c \in StoreContexts}
    /\ pc = [p \in Procs |-> "idle"]
    /\ resolved = [p \in Procs |-> OnDisk(Absent, 0)]
    /\ arg = [p \in Procs |-> NoContext]
    /\ reqs = <<>>
    /\ reply = [p \in Procs |-> NoResult]
    /\ log = {}

StoreNext ==
    \E p \in Procs :
        \/ Store_Open(p)
        \/ Store_Write(p)
        \/ Store_Read(p)
        \/ Store_Clear(p)

StoreSpec == StoreInit /\ [][StoreNext]_vars

(***************************** the listing as it arrives *******************)
\* A second specification for the handlers that sort a listing by its flags:
\* backend is here the profiles array of the answer to GET /v1/mcp/profiles,
\* with mcp_activated and is_ready the two booleans the McpProfile type makes
\* of them, each sent as the Remote Data Service pleases.
WireListings ==
    {[k \in 1..Cardinality(ProfileIds) |->
         [ProfileListing(b)[k] EXCEPT !.mcp_activated = activated[k], !.is_ready = ready[k]]] :
       b \in BackendStates,
       activated \in [1..Cardinality(ProfileIds) -> BOOLEAN],
       ready \in [1..Cardinality(ProfileIds) -> BOOLEAN]}

\* lines 832-877, on the listing that arrived
Listing_ListMcpProfiles ==
    \E kind \in ListAnswerKinds :
        OneRequest(NoArg, Req("GET", "/v1/mcp/profiles", <<>>, kind),
                   ListMcpProfilesReply(request(kind), backend))

\* lines 974-1030 with the identifier of a listed profile as the reference: the
\* resolver hands it on without a fetch, the handler fetches the listing
Listing_SetCurrentProfile ==
    /\ pc = "idle"
    /\ \E i \in 1..Len(backend), kind \in ListAnswerKinds, now \in Times :
          LET input == StrArg(backend[i].id)
              r == resolveProfileId(input, kind, backend)
              o == SetCurrentOutcome(r, kind, backend, now)
          IN  /\ arg' = input
              /\ resolved' = r
              /\ reqs' = resolveRequests(input, kind)
                            \o <<Req("GET", "/v1/mcp/profiles", <<>>, kind)>>
              /\ IF o.write
                 THEN \E io \in IoOutcomes :
                         /\ file' = writeContext(file, o.context, io)
                         /\ log' = requestLog(kind) \cup writeContextLog(o.context, io)
                 ELSE /\ file' = file
                      /\ log' = requestLog(kind)
              /\ reply' = Reply("set_current_profile", o.prefix, o.rest, o.shown)
    /\ pc' = "done"
    /\ UNCHANGED backend

ListingInit ==
    /\ backend \in WireListings
    /\ file = Absent
    /\ pc = "idle"
    /\ resolved = NoResolution
    /\ arg = NoArg
    /\ reqs = <<>>
    /\ reply = NoReply
    /\ log = {}

ListingNext ==
    \/ Listing_ListMcpProfiles
    \/ Listing_SetCurrentProfile
    \/ Deliver

ListingSpec == ListingInit /\ [][ListingNext]_vars

(***************************** vocabulary of the claims ********************)
A1 == <<"a", "1">>

B2 == <<"b", "2">>

StripLeadingHash(s) == IF s # <<>> /\ Head(s) = "#" THEN Tail(s) ELSE s

IsIntegerLiteral(s) == s # <<>> /\ \A i \in 1..Len(s) : IsDigit(s[i])

\* the reference is an integer, bare or '#'-prefixed
IntegerRef(input) ==
    input.t = "number" \/ (input.t = "string" /\ IsIntegerLiteral(StripLeadingHash(input.s)))

RefValue(input) ==
    IF input.t = "number" THEN input.n ELSE DecimalValue(StripLeadingHash(input.s))

Listed(b, n) == \E p \in ProfileIds : b[p].number = n

IdOfOrdinal(b, n) == CHOOSE p \in ProfileIds : b[p].number = n

ResolverTools == {"set_current_profile", "list_campaigns"}

\* this step is a call of resolveProfileId, up to its return
ResolveStep ==
    /\ pc = "idle"
    /\ \/ pc' \in ResolverTools
       \/ pc' = "done" /\ reply'.tool \in ResolverTools

\* this step is set_current_profile from its own list fetch to its return,
\* and the fetch brought a listing
SelectStep ==
    /\ pc = "set_current_profile"
    /\ pc' = "done"
    /\ reqs'[Len(reqs')].answer = "ok"

LastAnswer == reqs[Len(reqs)].answer

(***************************** C1 ******************************************)
\* C1: an integer reference whose number no profile of the fetched listing has
\* makes resolveProfileId return null, and the calling handler stops there
\* (no request carries the reference as a profile_id).
C1_AbsentOrdinalUnresolved ==
    [][(ResolveStep /\ IntegerRef(arg') /\ ~Listed(backend, RefValue(arg')))
          => (resolved'.null /\ pc' = "done")]_vars

(***************************** C2 ******************************************)
\* C2: set_current_profile on a profile listed as activated and not ready
\* writes the context (a following read returns that profile's identifier) and
\* replies with a warning.
C2_WarningStillWrites ==
    [][(/\ SelectStep
        /\ resolved.id \in ProfileIds
        /\ backend[resolved.id].mcp_activated
        /\ backend[resolved.id].mcp_data_status # "ready")
          => (/\ reply'.prefix = "Warning:"
              /\ ~readContext(file').null
              /\ readContext(file').ctx.profileId = resolved.id)]_vars

(***************************** C3 ******************************************)
\* C3: set_current_profile on a profile listed as not activated replies with
\* an error and leaves the context file exactly as it was.
C3_NotActivatedLeavesContext ==
    [][(SelectStep /\ resolved.id \in ProfileIds /\ ~backend[resolved.id].mcp_activated)
          => (reply'.prefix = "Error:" /\ file' = file)]_vars

\* the refusal has happened while a record was stored
C3_Witness ==
    /\ pc = "done"
    /\ reply.tool = "set_current_profile"
    /\ reply.rest = "is not activated for MCP access"
    /\ file.st = "json"

(***************************** C4 ******************************************)
\* the resolver maps a listed ordinal to the identifier the listing gives it
C4_ResolvesOrdinal ==
    (/\ pc = "idle"
     /\ pc' = "set_current_profile"
     /\ IntegerRef(arg')
     /\ Listed(backend, RefValue(arg')))
        => resolved'.id = IdOfOrdinal(backend, RefValue(arg'))

C4_Ready ==
    /\ SelectStep
    /\ resolved.id \in ProfileIds
    /\ backend[resolved.id].mcp_activated
    /\ backend[resolved.id].mcp_data_status = "ready"

\* C4 as stated: an ordinal whose profile is activated and ready gets the
\* success reply and the stored record holds the identifier listed for it.
C4_Original ==
    [][/\ C4_ResolvesOrdinal
       /\ C4_Ready => (/\ reply'.prefix = "OK"
                       /\ file'.st = "json"
                       /\ file'.ctx.profileId = resolved.id)]_vars

\* C4 amended: the success reply is always returned; the record is stored
\* unless the file write failed, which is logged and not reported.
C4_SuccessPersistsUnlessWriteFails ==
    [][/\ C4_ResolvesOrdinal
       /\ C4_Ready => (/\ reply'.prefix = "OK"
                       /\ "Failed to write context file" \notin log'
                             => (/\ file'.st = "json"
                                 /\ file'.ctx.profileId = resolved.id))]_vars

\* set_current_profile("2") on the listing {2 -> b2, activated, ready}
C4_Witness ==
    /\ pc = "done"
    /\ reply.tool = "set_current_profile"
    /\ reply.prefix = "OK"
    /\ arg = StrArg(<<"2">>)
    /\ "Context updated" \in log
    /\ file.st = "json"
    /\ file.ctx.profileId = B2

(***************************** C5 ******************************************)
\* C5: for an ordinal n of the listing, the references n, "n" and "#n" all
\* resolve to the listing's profile of number n.
C5_OrdinalFormsAgree ==
    [][(/\ ResolveStep
        /\ IntegerRef(arg')
        /\ Listed(backend, RefValue(arg'))
        /\ \A i \in 1..Len(reqs') : reqs'[i].answer = "ok")
          => LET id == IdOfOrdinal(backend, RefValue(arg'))
             IN  resolved' = Resolution(id, NameOf(id), RegionOf(id))]_vars

\* "#2" has been resolved to b2
C5_Witness ==
    /\ pc \in ResolverTools
    /\ arg = StrArg(<<"#", "2">>)
    /\ resolved = Resolution(B2, "Beta", "CA")

(***************************** C6 ******************************************)
\* C6: a reference that is not an integer comes back verbatim, with empty name
\* and region.
C6_OpaqueVerbatim ==
    [][(ResolveStep /\ ~IntegerRef(arg'))
          => resolved' = Resolution(StringOf(arg'), "", "")]_vars

(***************************** C7 ******************************************)
DataTools ==
    {"get_performance", "get_campaign_performance", "search_campaigns", "list_campaigns"}

\* C7: a data_not_ready answer to a performance or campaign fetch is rendered
\* as the not-ready text, with the estimate when there is one, never as an error.
C7_NotReadyRendered ==
    (/\ pc = "done"
     /\ reply.tool \in DataTools
     /\ reqs # <<>>
     /\ reqs[Len(reqs)].path # "/v1/mcp/profiles"
     /\ Body(LastAnswer).data_not_ready)
        => /\ reply.prefix = "**Data Not Yet Available**"
           /\ reply.rest = IF Body(LastAnswer).estimated_minutes.present
                           THEN "Estimated time" ELSE "Please try again later."

(***************************** C8 ******************************************)
\* C8: a record enters the context file only in set_current_profile, and it
\* names a profile whose mcp_activated flag is true in the listing that the
\* handler has just read.
C8_StoredProfileWasActivated ==
    [][(file' # file /\ file'.st = "json")
          => (/\ SelectStep
              /\ file'.ctx.profileId \in ProfileIds
              /\ backend[file'.ctx.profileId].mcp_activated)]_vars

\* a record has just been written
C8_Witness ==
    /\ pc = "done"
    /\ reply.tool = "set_current_profile"
    /\ "Context updated" \in log
    /\ file.st = "json"
    /\ backend[file.ctx.profileId].mcp_activated

(***************************** C9 ******************************************)
\* C9: the context file changes in no step but set_current_profile's.
C9_OnlySetCurrentWrites ==
    [][file' # file => (pc = "set_current_profile" /\ pc' = "done")]_vars

\* deactivate_mcp_profile has deactivated the very profile the context names
C9_Witness ==
    /\ pc = "done"
    /\ reply.tool = "deactivate_mcp_profile"
    /\ reply.rest = "deactivated from MCP access."
    /\ file.st = "json"
    /\ file.ctx.profileId = resolved.id

(***************************** C10 *****************************************)
ContextReaders == {"ppc://context", "context-aware"}

\* C10: a read of the context returns the stored record whatever the Remote
\* Data Service reports about the profile.
C10_ReadIgnoresBackend ==
    (pc = "done" /\ reply.tool \in ContextReaders /\ file.st = "json")
        => /\ reply.prefix \in {"active", "Current working profile:"}
           /\ reply.ctx.profileNumber = file.ctx.profileNumber
           /\ reply.ctx.profileName = file.ctx.profileName
           /\ reply.tool = "ppc://context" => reply.ctx = file.ctx

\* the context resource has returned the record of a profile that the Remote
\* Data Service reports deactivated
C10_Witness ==
    /\ pc = "done"
    /\ reply.tool = "ppc://context"
    /\ reply.prefix = "active"
    /\ reply.ctx.profileId \in ProfileIds
    /\ ~backend[reply.ctx.profileId].mcp_activated

(***************************** C11 *****************************************)
\* what readContext takes from a store of the store specification
Content(f) == [st |-> f.st, ctx |-> f.ctx]

\* this step is the return of a writeContext of p that succeeded
WriteReturned(p) ==
    /\ pc[p] = "writeFileSync"
    /\ pc'[p] = "idle"
    /\ reply'[p].ok

\* C11: when a writeContext(c) succeeds on the store as its own open left it, a
\* readContext right after it returns a record equal to c in every field,
\* whatever the store held before.
C11_WriteThenRead ==
    [][\A p \in Procs :
          (WriteReturned(p) /\ file = Truncated)
              => readContext(file') = [null |-> FALSE, ctx |-> arg[p]]]_vars

\* the record whose identifier needs escaping has replaced another record
C11_Witness ==
    \E p \in Procs :
        /\ reqs = Call(p, "writeContext")
        /\ pc[p] = "idle"
        /\ reply[p].ok
        /\ resolved[p].st = "json"
        /\ resolved[p].ctx # arg[p]
        /\ arg[p].profileId = <<"\"", "\\">>
        /\ arg[p].profileNumber = 10
        /\ readContext(file).ctx = arg[p]

(***************************** C12 *****************************************)
ClearStep(p) == reqs' = Call(p, "clearContext")

\* C12 as stated: after clearContext a read returns unset, and clearContext on
\* an absent store changes nothing and logs nothing.
C12_Original ==
    [][\A p \in Procs :
          ClearStep(p)
              => /\ readContext(file').null
                 /\ file.st = "absent" => (file' = file /\ log' = {})]_vars

\* C12 amended: so it is unless the removal of the file fails; a failed removal
\* is logged, raises nothing and leaves the store as it was.  A clearContext
\* after one that removed the file changes nothing.
C12_ClearThenReadUnlessRemovalFails ==
    [][\A p \in Procs :
          ClearStep(p)
              => /\ reply'[p].ok => readContext(file').null
                 /\ ~reply'[p].ok
                       => (file' = file /\ "Failed to clear context file" \in log')
                 /\ file.st = "absent" => (file' = file /\ log' = {} /\ reply'[p].ok)
                 /\ reply'[p].ok
                       => \A io \in UnlinkOutcomes :
                             /\ clearContext(Content(file'), io) = Content(file')
                             /\ clearContextLog(Content(file'), io) = {}]_vars

\* a clearContext has removed a stored record
C12_Witness ==
    \E p \in Procs :
        /\ reqs = Call(p, "clearContext")
        /\ reply[p].ok
        /\ resolved[p].st = "json"
        /\ "Context cleared" \in log
        /\ readContext(file).null

(***************************** C13 *****************************************)
\* C13: with the store missing or its content unreadable, readContext returns
\* unset (and logs the failure of a read), and the resource read and the prompt
\* that called it complete with their 'not set' replies.
C13_ReadDegradesToUnset ==
    (pc = "done" /\ reply.tool \in ContextReaders /\ file.st # "json")
        => /\ readContext(file) = [null |-> TRUE, ctx |-> NoContext]
           /\ reply.prefix = IF reply.tool = "ppc://context"
                             THEN "not_set" ELSE "No profile context set"
           /\ reply.ctx = NoContext
           /\ file.st = "corrupt" <=> "Failed to read context file" \in log

\* the context resource has been read from a store with partial content
C13_Witness ==
    /\ pc = "done"
    /\ reply.tool = "ppc://context"
    /\ reply.prefix = "not_set"
    /\ file.st = "corrupt"
    /\ "Failed to read context file" \in log

(***************************** C14 *****************************************)
ReadStep(p) == reqs' = Call(p, "readContext")

\* C14: a readContext of one process, made while the writeContext of another is
\* replacing record A by record B, returns A or B, never unset and never a
\* partial record.
C14_ReaderSeesOldOrNew ==
    [][\A p \in Procs : \A q \in Procs \ {p} :
          (/\ ReadStep(p)
           /\ pc[q] = "writeFileSync"
           /\ resolved[q].st = "json")
              => /\ ~reply'[p].null
                 /\ reply'[p].ctx \in {resolved[q].ctx, arg[q]}]_vars

(***************************** C15 *****************************************)
\* C15: once two processes have each returned from a successful writeContext,
\* the store holds, in every field, the record one of them wrote.
C15_LastWriteWinsWhole ==
    (\A p \in Procs : /\ pc[p] = "idle"
                      /\ reply[p].op = "writeContext"
                      /\ reply[p].ok)
        => /\ file.st = "json"
           /\ \E p \in Procs : file.ctx = arg[p]

(***************************** C16 *****************************************)
\* the names the tool-call handler replies under
ToolNames ==
    {"list_profiles", "get_profile", "list_campaigns", "get_campaign",
     "update_campaign_status", "update_campaign_budget", "search_campaigns",
     "list_keywords", "update_keyword_bid", "update_keyword_status", "get_performance",
     "get_campaign_performance", "list_mcp_profiles", "activate_mcp_profile",
     "check_mcp_status", "deactivate_mcp_profile", "set_current_profile", "unknown"}

\* where a tool invocation waits for the answer to its second request
Awaiting ==
    {"set_current_profile", "list_campaigns", "activate_mcp_profile", "check_mcp_status",
     "deactivate_mcp_profile"}

\* C16: a tool invocation that has returned has returned a text, whatever the
\* backend did and whatever was thrown in the handler: no exception leaves the
\* handler, and the step an invocation takes on its second answer is its return.
C16_AlwaysATextResult ==
    /\ []((pc = "done" /\ reply.tool \in ToolNames)
            => (reply.prefix \notin {"", "throw"} /\ reply.rest # ""))
    /\ [][(pc \in Awaiting /\ pc' # pc)
            => (pc' = "done" /\ reply'.tool = pc /\ reply'.prefix \notin {"", "throw"})]_vars

\* a TypeError thrown in the list_profiles case has come back as a text
C16_Witness ==
    /\ pc = "done"
    /\ reply = Reply("list_profiles", "Error:", "TypeError", NoContext)
    /\ reqs[1].answer = "ok_malformed"

(***************************** C17 *****************************************)
\* the request a step has just made
LastRequest == reqs'[Len(reqs')]

\* C17: activate_mcp_profile with ordinal n takes from the listing it has just
\* fetched the profile of number n, and posts that profile's identifier to
\* /v1/mcp/profiles/activate.
C17_ActivateSendsListedId ==
    [][/\ (pc = "idle" /\ pc' = "activate_mcp_profile")
            => /\ Listed(backend, arg'.n)
               /\ resolved'.id = IdOfOrdinal(backend, arg'.n)
       /\ (pc = "activate_mcp_profile" /\ pc' = "done")
            => /\ Len(reqs') = 2
               /\ LastRequest.method = "POST"
               /\ LastRequest.path = "/v1/mcp/profiles/activate"
               /\ LastRequest.profile_id = resolved.id
               /\ resolved' = resolved]_vars

\* ordinal 1 has been activated as a1 while the working context names b2
C17_Witness ==
    /\ pc = "done"
    /\ reply.tool = "activate_mcp_profile"
    /\ arg = NumArg(1)
    /\ Len(reqs) = 2
    /\ reqs[2].profile_id = A1
    /\ file.st = "json"
    /\ file.ctx.profileId = B2

(***************************** C18 *****************************************)
SwitchTools == {"activate_mcp_profile", "deactivate_mcp_profile"}

\* C18: activate_mcp_profile and deactivate_mcp_profile go on to their POST for
\* every listed profile, whatever its mcp_activated and mcp_data_status, and
\* reply with the outcome of the POST: its error message, or the success text.
C18_NoLocalPreCheck ==
    [][/\ (/\ pc = "idle"
           /\ pc' \in SwitchTools \/ (pc' = "done" /\ reply'.tool \in SwitchTools)
           /\ request(reqs'[1].answer).success
           /\ Listed(backend, arg'.n))
            => (pc' \in SwitchTools /\ Len(reqs') = 1)
       /\ (pc \in SwitchTools /\ pc' = "done")
            => LET response == request(LastRequest.answer)
               IN  /\ LastRequest.method = "POST"
                   /\ LastRequest.profile_id = resolved.id
                   /\ reply'.tool = pc
                   /\ response.success <=> reply'.prefix # "Error:"
                   /\ ~response.success
                         => reply'.rest = ErrorOf(response,
                                                  IF pc = "activate_mcp_profile"
                                                  THEN "Failed to activate profile"
                                                  ELSE "Failed to deactivate profile")]_vars

\* the POST for a profile that was already activated has been made, and the
\* error the backend answered is the reply
C18_Witness ==
    /\ pc = "done"
    /\ reply = Reply("activate_mcp_profile", "Error:", "backend error", NoContext)
    /\ Len(reqs) = 2
    /\ reqs[2].answer = "app_error"
    /\ backend[resolved.id].mcp_activated
    /\ backend[resolved.id].mcp_data_status = "ready"

(***************************** C19 *****************************************)
\* C19: when the list fetch of resolveProfileId fails for an integer reference,
\* one list request has been made, nothing is resolved, and set_current_profile
\* or list_campaigns returns its error text with no further request and the
\* context file as it was.
C19_FailedListFetchEndsTheCall ==
    [][(/\ ResolveStep
        /\ IntegerRef(arg')
        /\ \A i \in 1..Len(reqs') : ~request(reqs'[i].answer).success)
          => /\ Len(reqs') = 1
             /\ reqs'[1].path = "/v1/mcp/profiles"
             /\ resolved' = NoResolution
             /\ pc' = "done"
             /\ reply'.tool \in ResolverTools
             /\ reply'.prefix = "Error:"
             /\ reply'.rest = "Could not resolve profile"
             /\ file' = file]_vars

\* set_current_profile("#1") has ended on a list fetch that threw, with a
\* record in the store
C19_Witness ==
    /\ pc = "done"
    /\ reply = Reply("set_current_profile", "Error:", "Could not resolve profile", NoContext)
    /\ arg = StrArg(<<"#", "1">>)
    /\ Len(reqs) = 1
    /\ reqs[1].answer = "throw"
    /\ file.st = "json"

(***************************** C20 *****************************************)
\* C20: when writeContext fails inside set_current_profile, the failure is
\* logged and the invocation returns the reply of a selection all the same.
C20_WriteFailureDoesNotAbort ==
    [][(SelectStep /\ "Failed to write context file" \in log')
          => /\ pc' = "done"
             /\ reply'.tool = "set_current_profile"
             /\ reply'.prefix = "OK"
             /\ reply'.rest = "Current working profile set to"
             /\ reply'.ctx.profileName = NameOf(resolved.id)
             /\ "Context updated" \notin log']_vars

\* a selection has been replied to although its write left partial content
C20_Witness ==
    /\ pc = "done"
    /\ reply.tool = "set_current_profile"
    /\ reply.prefix = "OK"
    /\ "Failed to write context file" \in log
    /\ file.st = "corrupt"

(***************************** C21 *****************************************)
\* the call did not come back with a 2xx response: fetch threw, or the status
\* was not ok
CallFailed(kind) == Throws(kind) \/ ~ResponseOk(kind)

\* C21: a request that failed is the last request of its invocation (nothing
\* is sent again after it), the invocation has returned, and what it returned
\* is a text "Error: <message>".
C21_FailedCallNotRetried ==
    \A i \in 1..Len(reqs) :
        CallFailed(reqs[i].answer)
            => /\ i = Len(reqs)
               /\ pc = "done"
               /\ reply.prefix = "Error:"
               /\ reply.rest # ""

\* the POST of activate_mcp_profile threw, and the reply is its message
C21_Witness ==
    /\ pc = "done"
    /\ reply = Reply("activate_mcp_profile", "Error:", "Request failed", NoContext)
    /\ Len(reqs) = 2
    /\ reqs[2].method = "POST"
    /\ reqs[2].answer = "throw"

(***************************** C22 *****************************************)
\* C22: a step of an invocation sends at most one request and ends with its
\* answer; a second request is sent only by an invocation that waits with the
\* answered list fetch behind it, it leaves that fetch as it was, and no
\* invocation sends a third.
C22_RequestsOneAfterAnother ==
    [][/\ Len(reqs') <= Len(reqs) + 1
       /\ Len(reqs') <= 2
       /\ Len(reqs') = 2
            => /\ pc \in Awaiting
               /\ Len(reqs) = 1
               /\ reqs'[1] = reqs[1]
               /\ reqs[1].path = "/v1/mcp/profiles"
               /\ request(reqs[1].answer).success
               /\ pc' = "done"]_vars

\* set_current_profile has made its own list fetch after the resolver's
C22_Witness ==
    /\ pc = "done"
    /\ reply.tool = "set_current_profile"
    /\ Len(reqs) = 2
    /\ reqs[1] = Req("GET", "/v1/mcp/profiles", <<>>, "ok")
    /\ reqs[2] = Req("GET", "/v1/mcp/profiles", <<>>, "ok")
    /\ reply.prefix = "Warning:"

(***************************** C23 *****************************************)
\* C23: every resolveProfileId call with an integer reference makes its own
\* list fetch, and with that fetch answered it returns the profile that holds
\* the ordinal now: when an earlier call resolved the ordinal to another
\* profile (the one the stored record keeps under that number), the later call
\* does not return that profile.
C23_ResolverHoldsNoCache ==
    [][(ResolveStep /\ IntegerRef(arg'))
          => /\ Len(reqs') = 1
             /\ reqs'[1].method = "GET"
             /\ reqs'[1].path = "/v1/mcp/profiles"
             /\ (reqs'[1].answer = "ok" /\ Listed(backend, RefValue(arg')))
                   => LET now == IdOfOrdinal(backend, RefValue(arg'))
                      IN  /\ resolved'.id = now
                          /\ (/\ file.st = "json"
                              /\ file.ctx.profileNumber = RefValue(arg')
                              /\ file.ctx.profileId # now)
                                => resolved'.id # file.ctx.profileId]_vars

\* ordinal 2 was resolved to b2 and stored; after the ordinals were handed out
\* anew the same reference has been resolved to a1
C23_Witness ==
    /\ pc \in ResolverTools
    /\ arg = NumArg(2)
    /\ resolved.id = A1
    /\ file.st = "json"
    /\ file.ctx.profileNumber = 2
    /\ file.ctx.profileId = B2

(***************************** C24 *****************************************)
\* the import of the profile has come to its end, one way or the other
Settled(b, p) == b[p].mcp_data_status \in {"ready", "error"}

\* this step is a step of a handler (the Remote Data Service's own steps leave
\* the handlers where they are)
HandlerStep == pc' # pc

\* C24 as stated: no step of a handler (activate, deactivate, check_status,
\* set_current_profile or any other) changes the mcp_data_status of a profile
\* that is ready or in error.
C24_Original ==
    [][HandlerStep
          => \A p \in ProfileIds :
                Settled(backend, p)
                    => backend'[p].mcp_data_status = backend[p].mcp_data_status]_vars

\* C24 amended: a profile that is ready or in error is left as it is by every
\* step of a handler except the POST of deactivate_mcp_profile for that very
\* profile, which takes it back to not activated.
C24_OnlyDeactivateLeavesSettled ==
    [][HandlerStep
          => \A p \in ProfileIds :
                Settled(backend, p)
                    => \/ backend'[p] = backend[p]
                       \/ /\ pc = "deactivate_mcp_profile"
                          /\ resolved.id = p
                          /\ LastRequest.method = "POST"
                          /\ LastRequest.path = "/v1/mcp/profiles/deactivate"
                          /\ ~backend'[p].mcp_activated
                          /\ backend'[p].mcp_data_status = "null"]_vars

\* the POST of activate_mcp_profile for a profile in error was lost on the
\* way back, and the profile is in error still
C24_Witness ==
    /\ pc = "done"
    /\ reply.tool = "activate_mcp_profile"
    /\ Len(reqs) = 2
    /\ reqs[2].answer = "throw"
    /\ resolved.id \in ProfileIds
    /\ backend[resolved.id].mcp_data_status = "error"

(***************************** C25 *****************************************)
\* this step is a step of check_mcp_status: its list fetch and search, or its
\* status request and return
CheckStatusStep ==
    \/ /\ pc = "idle"
       /\ pc' = "check_mcp_status" \/ (pc' = "done" /\ reply'.tool = "check_mcp_status")
    \/ pc = "check_mcp_status" /\ pc' = "done"

\* C25: check_mcp_status sends GET requests only: the list fetch, and then the
\* status of the profile it found in the listing; it leaves the context file
\* and every profile of the Remote Data Service as they were.
C25_CheckStatusIsAPureRead ==
    [][CheckStatusStep
          => /\ \A i \in 1..Len(reqs') : reqs'[i].method = "GET"
             /\ Len(reqs') >= 1 => reqs'[1].path = "/v1/mcp/profiles"
             /\ Len(reqs') = 2
                  => /\ reqs'[2].path = "/v1/mcp/profiles/{id}/status"
                     /\ reqs'[2].profile_id = resolved.id
                     /\ resolved.id \in ProfileIds
             /\ file' = file
             /\ backend' = backend]_vars

\* the status of a listed profile has been read while a record is stored
C25_Witness ==
    /\ pc = "done"
    /\ reply.tool = "check_mcp_status"
    /\ reply.prefix = "**MCP Status:"
    /\ Len(reqs) = 2
    /\ reqs[2].method = "GET"
    /\ file.st = "json"

(***************************** C26 *****************************************)
\* the four fields of the record are those of one profile of the listing
FromOneListedProfile(ctx, profiles) ==
    \E i \in 1..Len(profiles) :
        /\ ctx.profileId = profiles[i].id
        /\ ctx.profileNumber = profiles[i].number
        /\ ctx.profileName = profiles[i].name
        /\ ctx.region = profiles[i].region

\* C26: the record set_current_profile writes has profileId, profileNumber,
\* profileName and region of one profile of the listing the handler itself
\* fetched (the one with the resolved identifier), whatever ordinal the
\* resolver's listing gave that profile and whatever name the resolver
\* returned for it.
C26_StoredRecordIsOneListedProfile ==
    /\ [](pc = "set_current_profile"
            => \A name \in {resolved.name, "Formerly"}, now \in Times :
                  LET o == SetCurrentOutcome([resolved EXCEPT !.name = name], "ok",
                                             ProfileListing(backend), now)
                  IN  o.write => /\ FromOneListedProfile(o.context, ProfileListing(backend))
                                 /\ o.context.profileId = resolved.id)
    /\ [][(SelectStep /\ "Context updated" \in log')
            => /\ file'.st = "json"
               /\ FromOneListedProfile(file'.ctx, ProfileListing(backend))
               /\ file'.ctx.profileId = resolved.id]_vars

\* reference 2 was resolved to b2, the ordinals were handed out anew, and the
\* record written holds b2 with the ordinal of the handler's own listing
C26_Witness ==
    /\ pc = "done"
    /\ reply.tool = "set_current_profile"
    /\ "Context updated" \in log
    /\ arg = NumArg(2)
    /\ file.st = "json"
    /\ file.ctx.profileId = B2
    /\ file.ctx.profileNumber = 1
    /\ file.ctx.profileName = "Beta"

(***************************** C27 *****************************************)
\* the profile_id the context-aware prompt tells the agent to use: the stored
\* profile number, as a string
PromptedReference(f) == StrArg(NumberToString(readContext(f).ctx.profileNumber))

\* C27: list_campaigns called with the profile_id the context-aware prompt
\* hands out (the stored profile number) resolves to the stored profileId and
\* fetches the campaigns of that profile.
C27_ContextDefaultIsStoredProfile ==
    (/\ ~readContext(file).null
     /\ arg = PromptedReference(file)
     /\ \/ pc = "list_campaigns"
        \/ pc = "done" /\ reply.tool = "list_campaigns" /\ Len(reqs) = 2)
        => /\ resolved.id = readContext(file).ctx.profileId
           /\ pc = "done" => reqs[2].profile_id = readContext(file).ctx.profileId

(***************************** C28 *****************************************)
\* set_current_profile has returned its success text
SelectionReported ==
    /\ pc = "done"
    /\ reply.tool = "set_current_profile"
    /\ reply.prefix = "OK"

\* C28 as stated: whenever set_current_profile has returned its success text,
\* a read of the context returns a record with the identifier of the profile
\* the text names.
C28_Original ==
    SelectionReported
        => /\ ~readContext(file).null
           /\ readContext(file).ctx.profileId = resolved.id

\* C28 amended: the success text is returned whether or not the write went
\* through. When it did, a read returns the selected profile's record; when it
\* did not, the failure is logged and a read returns what it returned before
\* the call, or unset.
C28_SuccessReadsBackUnlessWriteFailed ==
    /\ [](SelectionReported
            => IF "Failed to write context file" \in log
               THEN "Context updated" \notin log
               ELSE /\ "Context updated" \in log
                    /\ ~readContext(file).null
                    /\ readContext(file).ctx.profileId = resolved.id
                    /\ readContext(file).ctx.profileName = reply.ctx.profileName
                    /\ readContext(file).ctx.profileNumber = reply.ctx.profileNumber)
    /\ [][(SelectStep /\ reply'.prefix = "OK" /\ "Failed to write context file" \in log')
            => \/ readContext(file') = readContext(file)
               \/ readContext(file').null]_vars

\* b2 has been reported as selected while the store still names a1
C28_Witness ==
    /\ SelectionReported
    /\ resolved.id = B2
    /\ "Failed to write context file" \in log
    /\ file.st = "json"
    /\ file.ctx.profileId = A1

(***************************** C29 *****************************************)
\* the lines of the text that show the profile
EntriesOf(lines, p) ==
    {j \in 1..Len(lines) :
        lines[j].head = "" /\ lines[j].number = p.number /\ lines[j].name = p.name}

\* the heading a line of the text stands under
HeadingOf(lines, j) ==
    lines[CHOOSE h \in 1..j :
             /\ lines[h].head # ""
             /\ \A k \in (h + 1)..j : lines[k].head = ""].head

\* the group the three tests of the claim give a profile
GroupOf(p) ==
    IF p.is_ready THEN "**Ready for Queries"
    ELSE IF p.mcp_activated THEN "**Importing Data"
    ELSE "**Not Activated"

\* C29: in the text of list_mcp_profiles every profile of the listing is shown
\* once, under the heading of its group (ready: is_ready; importing:
\* mcp_activated and not is_ready; not activated: not mcp_activated), whatever
\* is_ready and mcp_activated the listing gives it, and set_current_profile on
\* the same listing answers its success text for a profile shown as ready.
C29_ListingIsPartitioned ==
    (pc = "done" /\ reply.tool = "list_mcp_profiles" /\ reply.prefix = "Found")
        => \A i \in 1..Len(backend) :
              LET p == backend[i]
                  entries == EntriesOf(reply.lines, p)
              IN  /\ Cardinality(entries) = 1
                  /\ \A j \in entries : HeadingOf(reply.lines, j) = GroupOf(p)
                  /\ p.is_ready
                       => \A now \in Times :
                             SetCurrentOutcome(Resolution(p.id, p.name, p.region), "ok",
                                               backend, now).prefix = "OK"

(***************************** C30 *****************************************)
\* this step is the list fetch and search of activate_mcp_profile or of
\* deactivate_mcp_profile
SwitchLookupStep ==
    /\ pc = "idle"
    /\ pc' \in SwitchTools \/ (pc' = "done" /\ reply'.tool \in SwitchTools)

\* C30: when the list fetch of activate_mcp_profile or deactivate_mcp_profile
\* fails, or no profile of the listing has the number given, the invocation
\* returns an error text there and then: its one request is the GET of the
\* listing, and the Remote Data Service is as it was.  A POST is sent only
\* for a profile that was found.
C30_NoPostWithoutAProfile ==
    [][/\ (/\ SwitchLookupStep
           /\ \/ ~request(reqs'[1].answer).success
              \/ ~Listed(backend, arg'.n))
            => /\ pc' = "done"
               /\ Len(reqs') = 1
               /\ reqs'[1].method = "GET"
               /\ reply'.prefix = "Error:"
               /\ resolved' = NoResolution
               /\ backend' = backend
       /\ (Len(reqs') > Len(reqs) /\ LastRequest.method = "POST")
            => /\ pc \in SwitchTools
               /\ request(reqs[1].answer).success
               /\ resolved.id \in ProfileIds
               /\ LastRequest.profile_id = resolved.id]_vars

\* deactivate_mcp_profile for a number past the last one has ended without a
\* POST
C30_Witness ==
    /\ pc = "done"
    /\ reply = Reply("deactivate_mcp_profile", "Error:", "Profile not found.", NoContext)
    /\ ~Listed(backend, arg.n)
    /\ Len(reqs) = 1
    /\ reqs[1].answer = "ok"

====
